---- MODULE Spec2Model ----
(***************************************************************************)
(* Model of include/Joint.h (namespace NPSMLE):                            *)
(*   simulate_joint_process  - Euler-Maruyama path simulator               *)
(*   simulated_ll_joint      - simulated-likelihood evaluator              *)
(*                                                                         *)
(* Numbers.  Inputs are taken from small sets of integers, on which the    *)
(* sums and products of the code are exact in double arithmetic; sqrt      *)
(* rounds to the grid of the model (the integers), as the machine sqrt     *)
(* rounds to the grid of doubles.  abs is the absolute value (on integer   *)
(* values the int and the double overload of abs agree).  exp, log, pow    *)
(* and st_dev are not computed: the terms they are applied to are kept,    *)
(* in evaluation order, and the IEEE class of the running log-likelihood   *)
(* is read from fp_table, a function of the parameter vector and of the    *)
(* observation step that is fixed for a behaviour.                         *)
(***************************************************************************)
EXTENDS Integers, Sequences, FiniteSets, TLC

\* ------------------------------------------------------------------------
\* Bounds of the model
\* ------------------------------------------------------------------------
MaxNobs == 3
MaxM == 2
MaxNsim == 2
MaxCalls == 3

\* ------------------------------------------------------------------------
\* Arithmetic helpers
\* ------------------------------------------------------------------------
abs(a) == IF a < 0 THEN -a ELSE a

RECURSIVE SqrtFrom(_, _)
SqrtFrom(n, r) == IF (r + 1) * (r + 1) > n THEN r ELSE SqrtFrom(n, r + 1)

\* sqrt of a non-negative value, rounded to the grid
sqrt(n) == SqrtFrom(n, 0)

RECURSIVE GCD(_, _)
GCD(a, b) == IF b = 0 THEN a ELSE GCD(b, a % b)

\* rationals <<numerator, denominator>>, kept in lowest terms
Rat(n, d) ==
    LET s == IF d < 0 THEN -1 ELSE 1
        g == GCD(abs(n), abs(d))
    IN  <<(s * n) \div g, (s * d) \div g>>
RInt(n) == <<n, 1>>
RAdd(a, b) == Rat(a[1] * b[2] + b[1] * a[2], a[2] * b[2])
RNeg(a) == <<-a[1], a[2]>>
RDiv(a, b) == Rat(a[1] * b[2], a[2] * b[1])

Max(a, b) == IF a > b THEN a ELSE b

\* ------------------------------------------------------------------------
\* Input sets
\* ------------------------------------------------------------------------
\* caller-owned buffers: price/volatility hold BufLen entries, sentiment
\* SentLen, the innovation and Wiener buffers InnLen, the ensemble MaxNsim
BufLen == MaxNobs
SentLen == Max(MaxNobs, (MaxNobs - 1) * MaxM)
InnLen == MaxNsim * MaxM

\* (gamma_v, mu_v, beta_v, sigma_v); the first is the degenerate volatility
VolParams == {<<0, 0, 0, 0>>, <<1, 1, 1, 1>>, <<1, 0, 2, 1>>}

\* JointParameters handed to simulate_joint_process
SimParams ==
    {[gamma_p |-> gp, mu_p |-> 2, gamma_v |-> vp[1], mu_v |-> vp[2],
      beta_v |-> vp[3], sigma_v |-> vp[4], rho_pv |-> r] :
        gp \in {1, 2}, vp \in VolParams, r \in {-1, 0, 1}}

\* parameter vectors x handed to simulated_ll_joint, in the positional order
\* [gamma_p, mu_p, gamma_v, mu_v, beta_v, sigma_v, rho_pv]
LLParams == {<<1, 2, 1, 1, 1, 1, 0>>, <<1, 3, 1, 0, 2, 2, -1>>}

\* pairs of standard-normal draws <<first draw, second draw>> of one sub-step
DrawPairs == {<<0, 0>>, <<1, -1>>}

\* <<p0, v0>>
InitialStates == {<<2, 0>>, <<3, 0>>, <<2, 1>>, <<1, 4>>}

\* dt is chosen so that delta = dt / M and sqrt(delta) are exact and the
\* paths stay bounded
DtSet(M) == IF M = 0 THEN {1} ELSE {M}

SentimentPaths ==
    {[n \in 0..(SentLen - 1) |-> IF n % 2 = 0 THEN -1 ELSE 2],
     [n \in 0..(SentLen - 1) |-> n - 1]}

\* observed series, raw innovation buffers and the scratch buffers as earlier
\* use left them
Worlds ==
    {[price |-> [n \in 0..(BufLen - 1) |-> 2 + n],
      volatility |-> [n \in 0..(BufLen - 1) |-> 1 + (n % 2)],
      sentiment |-> [n \in 0..(SentLen - 1) |-> IF n % 2 = 0 THEN -1 ELSE 2],
      random_buffer_price |-> [n \in 0..(InnLen - 1) |-> (n % 3) - 1],
      random_buffer_volatility |-> [n \in 0..(InnLen - 1) |-> 1 - (n % 2)],
      scratch |-> 0],
     [price |-> [n \in 0..(BufLen - 1) |-> 3 - (n % 2)],
      volatility |-> [n \in 0..(BufLen - 1) |-> 4 - n],
      sentiment |-> [n \in 0..(SentLen - 1) |-> n - 1],
      random_buffer_price |-> [n \in 0..(InnLen - 1) |-> 1 - (n % 2)],
      random_buffer_volatility |-> [n \in 0..(InnLen - 1) |-> (n % 3) - 1],
      scratch |-> 7]}

\* IEEE classes of a double
FpClass == {"normal", "zero", "neginf", "posinf", "nan"}
NonFinite == {"neginf", "posinf", "nan"}

\* the parameter vector whose evaluation meets the special values
Special == <<1, 2, 1, 1, 1, 1, 0>>

\* class of the running log-likelihood after each step, per parameter vector:
\* for Special it is c from step at on (a zero only at step at; an infinity or
\* a NaN stays), and normal everywhere else
FpTable(at, c) ==
    [key \in LLParams \X (1..(MaxNobs - 1)) |->
        IF key[1] = Special /\ (key[2] = at \/ (c \in NonFinite /\ key[2] > at))
        THEN c ELSE "normal"]

FpTables == {FpTable(at, c) : at \in 1..(MaxNobs - 1), c \in FpClass}

\* ------------------------------------------------------------------------
\* State
\* ------------------------------------------------------------------------
VARIABLES
    driver,                 \* which entry point the calling program uses
    pc,                     \* position in the running function
    calls,                  \* calls made so far
    budget,                 \* calls the driver makes
    \* arguments and locals of simulate_joint_process
    parameters, dt, N_obs, M_obs, p0, v0, delta, sqrt_delta, W_p, W_v,
    i, j, k,
    \* caller-owned series
    price, volatility, sentiment,
    \* wrapper fields, arguments and locals of simulated_ll_joint
    x, N_sim, M_sim, INFINITY_CHECK, ll, kernel_sum, h_frac, h_price,
    h_volatility, simulated_price, simulated_volatility,
    random_buffer_price, random_buffer_volatility,
    wiener_price, wiener_volatility, ret,
    fp_table,               \* IEEE class of ll per (x, step)
    ll_class,               \* IEEE class of ll
    \* history
    acc,                    \* <<buffer, index>> of every access of the call
    sent_reads,             \* reads of each sentiment entry in the call
    inn_use,                \* <<j, k, index>> of every innovation read
    again,                  \* the call repeats an earlier vector after another one
    memo                    \* <<x, ret>> of every completed evaluation

simArgs == <<parameters, M_obs, p0, v0, W_p, W_v>>
series == <<price, volatility, sentiment>>
llInputs == <<random_buffer_price, random_buffer_volatility, N_sim, M_sim>>
build == <<INFINITY_CHECK, fp_table>>
llScratch == <<simulated_price, simulated_volatility, wiener_price, wiener_volatility>>
llLocals == <<x, ll, kernel_sum, h_frac, h_price, h_volatility, ret, ll_class>>
history == <<acc, sent_reads, inn_use, again, memo>>
vars == <<driver, pc, calls, budget, simArgs, dt, N_obs, delta, sqrt_delta, i, j, k,
          series, llInputs, build, llScratch, llLocals, history>>

NoReads == [n \in 0..(SentLen - 1) |-> 0]
NoParams == [gamma_p |-> 0, mu_p |-> 0, gamma_v |-> 0, mu_v |-> 0,
             beta_v |-> 0, sigma_v |-> 0, rho_pv |-> 0]
NoHFrac == [base |-> <<0, 1>>, exp |-> <<0, 1>>, n |-> 0, nexp |-> <<0, 1>>]
NoBandwidth == [h_frac |-> NoHFrac, sd |-> <<>>]
NoReturn == [kind |-> "none", val |-> <<>>]

\* ------------------------------------------------------------------------
\* Initial states
\* ------------------------------------------------------------------------
InitSimulate ==
    /\ driver = "simulate"
    /\ budget = 1
    /\ price = [n \in 0..(BufLen - 1) |-> 0]
    /\ volatility = [n \in 0..(BufLen - 1) |-> 0]
    /\ sentiment \in SentimentPaths
    /\ N_obs = 0 /\ dt = 0
    /\ N_sim = 0 /\ M_sim = 0
    /\ INFINITY_CHECK = FALSE
    /\ fp_table = FpTable(1, "normal")
    /\ random_buffer_price = [n \in 0..(InnLen - 1) |-> 0]
    /\ random_buffer_volatility = [n \in 0..(InnLen - 1) |-> 0]
    /\ simulated_price = [n \in 0..(MaxNsim - 1) |-> 0]
    /\ simulated_volatility = [n \in 0..(MaxNsim - 1) |-> 0]
    /\ wiener_price = [n \in 0..(InnLen - 1) |-> 0]
    /\ wiener_volatility = [n \in 0..(InnLen - 1) |-> 0]

InitEstimate(nCalls, tables) ==
    /\ driver = "estimate"
    /\ budget = nCalls
    /\ \E w \in Worlds :
        /\ price = w.price
        /\ volatility = w.volatility
        /\ sentiment = w.sentiment
        /\ random_buffer_price = w.random_buffer_price
        /\ random_buffer_volatility = w.random_buffer_volatility
        /\ simulated_price = [n \in 0..(MaxNsim - 1) |-> w.scratch]
        /\ simulated_volatility = [n \in 0..(MaxNsim - 1) |-> w.scratch + 1]
        /\ wiener_price = [n \in 0..(InnLen - 1) |-> w.scratch]
        /\ wiener_volatility = [n \in 0..(InnLen - 1) |-> w.scratch + 2]
    /\ N_obs \in 1..MaxNobs
    /\ N_sim \in 1..MaxNsim
    /\ M_sim \in 1..MaxM
    /\ dt \in DtSet(M_sim)
    /\ INFINITY_CHECK \in BOOLEAN
    /\ fp_table \in tables

InitRest ==
    /\ pc = "idle"
    /\ calls = 0
    /\ parameters = NoParams
    /\ M_obs = 0 /\ p0 = 0 /\ v0 = 0
    /\ delta = 0 /\ sqrt_delta = 0
    /\ W_p = 0 /\ W_v = 0
    /\ i = 0 /\ j = 0 /\ k = 0
    /\ x = <<0, 0, 0, 0, 0, 0, 0>>
    /\ ll = <<>>
    /\ kernel_sum = <<>>
    /\ h_frac = NoHFrac
    /\ h_price = NoBandwidth
    /\ h_volatility = NoBandwidth
    /\ ret = NoReturn
    /\ ll_class = "zero"
    /\ acc = {}
    /\ sent_reads = NoReads
    /\ inn_use = {}
    /\ again = FALSE
    /\ memo = {}

Init == (InitSimulate \/ InitEstimate(MaxCalls, FpTables)) /\ InitRest

\* ------------------------------------------------------------------------
\* simulate_joint_process
\* ------------------------------------------------------------------------
\* dt / M in double arithmetic: +inf when M is 0 (dt > 0)
Quotient(a, b) == IF b = 0 THEN "inf" ELSE a \div b
RootOfQuotient(a, b) == IF b = 0 THEN "inf" ELSE sqrt(a \div b)

\* W_p = sqrt(1.0 - rho_pv * rho_pv) * draw + rho_pv * W_v
Correlate(rho_pv, draw, wv) == sqrt(1 - rho_pv * rho_pv) * draw + rho_pv * wv

\* price[i] after one sub-step
SimPriceNext(par, p, v, wp, dl, sq) ==
    LET mp == par.gamma_p * (par.mu_p - p)
        sp == p * sqrt(abs(v))
    IN  p + (mp * dl + wp * sp * sq)

\* volatility[i] after one sub-step
SimVolatilityNext(par, v, s, wv, dl, sq) ==
    LET mv == par.gamma_v * (par.mu_v + par.beta_v * abs(s) - v)
        sv == par.sigma_v * sqrt(abs(v))
    IN  v + (mv * dl + wv * sv * sq)

\* position after the increment of the observation loop
SimOuterTest(iNext) == IF iNext # N_obs THEN "sim_copy" ELSE "sim_done"

SimCall ==
    /\ pc = "idle" /\ driver = "simulate" /\ calls < budget
    /\ \E par \in SimParams, n \in 0..MaxNobs, m \in 0..MaxM, s0 \in InitialStates :
        \E d \in DtSet(m) :
            /\ parameters' = par
            /\ N_obs' = n /\ M_obs' = m /\ dt' = d
            /\ p0' = s0[1] /\ v0' = s0[2]
            /\ delta' = Quotient(d, m)
            /\ sqrt_delta' = RootOfQuotient(d, m)
            /\ volatility' = [volatility EXCEPT ![0] = s0[2]]
            /\ price' = [price EXCEPT ![0] = s0[1]]
            /\ i' = 1
            /\ pc' = IF 1 # n THEN "sim_copy" ELSE "sim_done"
    /\ calls' = calls + 1
    /\ acc' = {<<"volatility", 0>>, <<"price", 0>>}
    /\ UNCHANGED <<driver, budget, W_p, W_v, j, k, sentiment, llInputs, build, llScratch,
                   llLocals, sent_reads, inn_use, again, memo>>

\* SimCopy with line 39 copying from the price series
SimCopyCrossed ==
    /\ pc = "sim_copy" /\ i < BufLen
    /\ volatility' = [volatility EXCEPT ![i] = price[i - 1]]
    /\ price' = [price EXCEPT ![i] = price[i - 1]]
    /\ acc' = acc \cup {<<"volatility", i>>, <<"volatility", i - 1>>,
                        <<"price", i>>, <<"price", i - 1>>}
    /\ j' = 0
    /\ IF 0 # M_obs
       THEN pc' = "sim_step" /\ i' = i
       ELSE pc' = SimOuterTest(i + 1) /\ i' = i + 1
    /\ UNCHANGED <<driver, calls, budget, simArgs, dt, N_obs, delta, sqrt_delta, k,
                   sentiment, llInputs, build, llScratch, llLocals, sent_reads,
                   inn_use, again, memo>>

\* lines 39-40 and the entry test of the sub-step loop
SimCopy ==
    /\ pc = "sim_copy" /\ i < BufLen
    /\ volatility' = [volatility EXCEPT ![i] = volatility[i - 1]]
    /\ price' = [price EXCEPT ![i] = price[i - 1]]
    /\ acc' = acc \cup {<<"volatility", i>>, <<"volatility", i - 1>>,
                        <<"price", i>>, <<"price", i - 1>>}
    /\ j' = 0
    /\ IF 0 # M_obs
       THEN pc' = "sim_step" /\ i' = i
       ELSE pc' = SimOuterTest(i + 1) /\ i' = i + 1
    /\ UNCHANGED <<driver, calls, budget, simArgs, dt, N_obs, delta, sqrt_delta, k,
                   sentiment, llInputs, build, llScratch, llLocals, sent_reads, inn_use, again, memo>>

\* the observation loop runs past the end of the buffers: undefined behaviour
SimOutOfBounds ==
    /\ pc = "sim_copy" /\ i >= BufLen
    /\ pc' = "ub"
    /\ acc' = acc \cup {<<"volatility", i>>, <<"price", i>>}
    /\ UNCHANGED <<driver, calls, budget, simArgs, dt, N_obs, delta, sqrt_delta, i, j, k,
                   series, llInputs, build, llScratch, llLocals, sent_reads, inn_use, again, memo>>

\* lines 44-53: one sub-step, and the loop increments that follow it
SimStep ==
    /\ pc = "sim_step"
    /\ \E draws \in DrawPairs :
        /\ W_v' = draws[1]
        /\ W_p' = Correlate(parameters.rho_pv, draws[2], draws[1])
    /\ price' = [price EXCEPT ![i] =
                    SimPriceNext(parameters, price[i], volatility[i], W_p', delta, sqrt_delta)]
    /\ volatility' = [volatility EXCEPT ![i] =
                    SimVolatilityNext(parameters, volatility[i], sentiment[i], W_v', delta, sqrt_delta)]
    /\ acc' = acc \cup {<<"price", i>>, <<"volatility", i>>, <<"sentiment", i>>}
    /\ j' = j + 1
    /\ IF j + 1 # M_obs
       THEN pc' = "sim_step" /\ i' = i
       ELSE pc' = SimOuterTest(i + 1) /\ i' = i + 1
    /\ UNCHANGED <<driver, calls, budget, parameters, M_obs, p0, v0, dt, N_obs, delta,
                   sqrt_delta, k, sentiment, llInputs, build, llScratch, llLocals, sent_reads,
                   inn_use, again, memo>>

SimNext == SimCall \/ SimCopy \/ SimOutOfBounds \/ SimStep

\* ------------------------------------------------------------------------
\* simulated_ll_joint
\* ------------------------------------------------------------------------
\* the parameter vector unwrapped: x[0] .. x[6] of the code are v[1] .. v[7]
Unwrap(v) ==
    [gamma_p |-> v[1], mu_p |-> v[2], gamma_v |-> v[3], mu_v |-> v[4],
     beta_v |-> v[5], sigma_v |-> v[6], rho_pv |-> v[7]]

dimy == 1
undersmooth == <<1, 2>>

\* pow(4.0 / dimy + 2.0, 1.0 / (dimy + 4.0))
\*   * pow(N_sim, -(1.0 + undersmooth) / (dimy + 4.0)),
\* kept as the two bases and the two exponents
HFrac(n) ==
    [base |-> RAdd(RDiv(RInt(4), RInt(dimy)), RInt(2)),
     exp |-> RDiv(RInt(1), RAdd(RInt(dimy), RInt(4))),
     n |-> n,
     nexp |-> RDiv(RNeg(RAdd(RInt(1), undersmooth)), RAdd(RInt(dimy), RInt(4)))]

\* st_dev(buffer, n): the call, kept with the n entries it reads
st_dev(buffer, n) == [m \in 1..n |-> buffer[m - 1]]

\* h_frac * st_dev(buffer, N_sim)
Bandwidth(hf, buffer, n) == [h_frac |-> hf, sd |-> st_dev(buffer, n)]

\* exp((-(s - o) * (s - o)) / (2.0 * h * h)) / (h * sqrt_pi)
Kernel(s, o, h) == [d |-> s - o, h |-> h]

\* kernel_sum_volatility * kernel_sum_price
KernelProduct(sp, op, hp, sv, ov, hv) ==
    [volatility |-> Kernel(sv, ov, hv), price |-> Kernel(sp, op, hp)]

\* ::log(kernel_sum / N_sim)
LogTerm(ks, n) == [log |-> ks, n |-> n]

\* index of the sentiment entry of observation step ii, sub-step kk
SentIndex(ii, kk) == (ii - 1) * M_sim + kk

\* InnIndex without the stride of a member
InnIndexNoStride(jj, kk) == jj + kk

\* index of the innovation of member jj, sub-step kk
InnIndex(jj, kk) == jj * M_sim + kk

\* simulated_price[j] after one sub-step
LLPriceNext(par, sp, sv, wp, dl, sq) ==
    LET mp == par.gamma_p * (par.mu_p - sp)
        sqrt_vol == sp * sqrt(abs(sv))
    IN  sp + (mp * dl + wp * sqrt_vol * sq)

\* simulated_volatility[j] after one sub-step; sqrt_vol is the one computed
\* for the price, from the price before its update
LLVolatilityNext(par, sp, sv, s, wv, dl, sq) ==
    LET sqrt_vol == sp * sqrt(abs(sv))
        mv == par.gamma_v * (par.mu_v + par.beta_v * abs(s) - sv)
    IN  sv + (mv * dl + wv * sqrt_vol * par.sigma_v * sq)

\* std::isnormal
isnormal(c) == c = "normal"

\* ll == -INFINITY || !std::isnormal(ll)
FastExit(c) == c = "neginf" \/ ~isnormal(c)

max_double == [kind |-> "max_double", val |-> <<>>]

\* -ll
Negated(l) == [kind |-> "value", val |-> l]

\* position after the test of the member loop, and after the test of the
\* observation loop (whose body begins with the member loop at j = 0)
LLMemberTest(jNext) == IF jNext # N_sim THEN "ll_reset" ELSE "ll_bandwidth"
LLOuterTest(iNext) == IF iNext # N_obs THEN LLMemberTest(0) ELSE "ll_return"

\* lines 62-99: unwrap the parameters and the wrapper, initialise the locals
LLCall ==
    /\ pc \in {"idle", "ll_done"} /\ driver = "estimate" /\ calls < budget
    /\ \E v \in LLParams :
        /\ x' = v
        /\ again' = (v # x /\ \E m \in memo : m[1] = v)
    /\ calls' = calls + 1
    /\ ll' = <<>>
    /\ ll_class' = "zero"
    /\ kernel_sum' = <<>>
    /\ h_frac' = HFrac(N_sim)
    /\ delta' = Quotient(dt, M_sim)
    /\ sqrt_delta' = RootOfQuotient(dt, M_sim)
    /\ ret' = NoReturn
    /\ i' = IF 0 # N_sim * M_sim THEN 0 ELSE 1
    /\ pc' = IF 0 # N_sim * M_sim THEN "ll_fill" ELSE LLOuterTest(1)
    /\ j' = 0
    /\ acc' = {}
    /\ sent_reads' = NoReads
    /\ inn_use' = {}
    /\ UNCHANGED <<driver, budget, simArgs, dt, N_obs, k, series, llInputs, build,
                   llScratch, h_price, h_volatility, memo>>

\* LLFill with the assignment of line 103 the wrong way round
LLFillBackwards ==
    /\ pc = "ll_fill"
    /\ random_buffer_volatility' =
            [random_buffer_volatility EXCEPT ![i] = wiener_volatility[i]]
    /\ wiener_price' = [wiener_price EXCEPT ![i] =
            Correlate(Unwrap(x).rho_pv, random_buffer_price[i], wiener_volatility[i])]
    /\ acc' = acc \cup {<<"wiener_volatility", i>>, <<"random_buffer_volatility", i>>,
                        <<"wiener_price", i>>, <<"random_buffer_price", i>>}
    /\ IF i + 1 # N_sim * M_sim
       THEN i' = i + 1 /\ pc' = "ll_fill"
       ELSE i' = 1 /\ pc' = LLOuterTest(1)
    /\ j' = 0
    /\ UNCHANGED <<driver, calls, budget, simArgs, dt, N_obs, delta, sqrt_delta, k,
                   series, random_buffer_price, N_sim, M_sim, build, simulated_price,
                   simulated_volatility, wiener_volatility,
                   llLocals, sent_reads, inn_use, again, memo>>

\* lines 103-104: one entry of the correlated Wiener buffers
LLFill ==
    /\ pc = "ll_fill"
    /\ wiener_volatility' = [wiener_volatility EXCEPT ![i] = random_buffer_volatility[i]]
    /\ wiener_price' = [wiener_price EXCEPT ![i] =
            Correlate(Unwrap(x).rho_pv, random_buffer_price[i], wiener_volatility'[i])]
    /\ acc' = acc \cup {<<"wiener_volatility", i>>, <<"random_buffer_volatility", i>>,
                        <<"wiener_price", i>>, <<"random_buffer_price", i>>}
    /\ IF i + 1 # N_sim * M_sim
       THEN i' = i + 1 /\ pc' = "ll_fill"
       ELSE i' = 1 /\ pc' = LLOuterTest(1)
    /\ j' = 0
    /\ UNCHANGED <<driver, calls, budget, simArgs, dt, N_obs, delta, sqrt_delta, k,
                   series, llInputs, build, simulated_price, simulated_volatility,
                   llLocals, sent_reads, inn_use, again, memo>>

\* LLReset without the assignment of line 112
LLResetStale ==
    /\ pc = "ll_reset"
    /\ simulated_price' = simulated_price
    /\ simulated_volatility' = [simulated_volatility EXCEPT ![j] = volatility[i - 1]]
    /\ acc' = acc \cup {<<"simulated_volatility", j>>, <<"volatility", i - 1>>}
    /\ k' = 0
    /\ IF 0 # M_sim
       THEN pc' = "ll_step" /\ j' = j
       ELSE pc' = LLMemberTest(j + 1) /\ j' = j + 1
    /\ UNCHANGED <<driver, calls, budget, simArgs, dt, N_obs, delta, sqrt_delta, i,
                   series, llInputs, build, wiener_price, wiener_volatility,
                   llLocals, sent_reads, inn_use, again, memo>>

\* lines 112-113: member j starts from the observed state of step i - 1
LLReset ==
    /\ pc = "ll_reset"
    /\ simulated_price' = [simulated_price EXCEPT ![j] = price[i - 1]]
    /\ simulated_volatility' = [simulated_volatility EXCEPT ![j] = volatility[i - 1]]
    /\ acc' = acc \cup {<<"simulated_price", j>>, <<"price", i - 1>>,
                        <<"simulated_volatility", j>>, <<"volatility", i - 1>>}
    /\ k' = 0
    /\ IF 0 # M_sim
       THEN pc' = "ll_step" /\ j' = j
       ELSE pc' = LLMemberTest(j + 1) /\ j' = j + 1
    /\ UNCHANGED <<driver, calls, budget, simArgs, dt, N_obs, delta, sqrt_delta, i,
                   series, llInputs, build, wiener_price, wiener_volatility,
                   llLocals, sent_reads, inn_use, again, memo>>

\* lines 117-122: one sub-step of member j
LLStep ==
    /\ pc = "ll_step"
    /\ simulated_price' = [simulated_price EXCEPT ![j] =
            LLPriceNext(Unwrap(x), simulated_price[j], simulated_volatility[j],
                        wiener_price[InnIndex(j, k)], delta, sqrt_delta)]
    /\ simulated_volatility' = [simulated_volatility EXCEPT ![j] =
            LLVolatilityNext(Unwrap(x), simulated_price[j], simulated_volatility[j],
                             sentiment[SentIndex(i, k)], wiener_volatility[InnIndex(j, k)],
                             delta, sqrt_delta)]
    /\ acc' = acc \cup {<<"simulated_price", j>>, <<"simulated_volatility", j>>,
                        <<"wiener_price", InnIndex(j, k)>>,
                        <<"wiener_volatility", InnIndex(j, k)>>,
                        <<"sentiment", SentIndex(i, k)>>}
    /\ sent_reads' = [sent_reads EXCEPT ![SentIndex(i, k)] = @ + 1]
    /\ inn_use' = inn_use \cup {<<j, k, InnIndex(j, k)>>}
    /\ k' = k + 1
    /\ IF k + 1 # M_sim
       THEN pc' = "ll_step" /\ j' = j
       ELSE pc' = LLMemberTest(j + 1) /\ j' = j + 1
    /\ UNCHANGED <<driver, calls, budget, simArgs, dt, N_obs, delta, sqrt_delta, i,
                   series, llInputs, build, wiener_price, wiener_volatility,
                   llLocals, again, memo>>

\* lines 127-128: the bandwidths of the step
LLBandwidth ==
    /\ pc = "ll_bandwidth"
    /\ h_price' = Bandwidth(h_frac, simulated_price, N_sim)
    /\ h_volatility' = Bandwidth(h_frac, simulated_volatility, N_sim)
    /\ acc' = acc \cup {<<"simulated_price", n>> : n \in 0..(N_sim - 1)}
                  \cup {<<"simulated_volatility", n>> : n \in 0..(N_sim - 1)}
    /\ j' = 0
    /\ pc' = IF 0 # N_sim THEN "ll_kernel" ELSE "ll_accumulate"
    /\ UNCHANGED <<driver, calls, budget, simArgs, dt, N_obs, delta, sqrt_delta, i, k,
                   series, llInputs, build, llScratch, x, ll, kernel_sum, h_frac, ret,
                   ll_class, sent_reads, inn_use, again, memo>>

\* lines 132-134: the kernel term of member j
LLKernel ==
    /\ pc = "ll_kernel"
    /\ kernel_sum' = Append(kernel_sum,
            KernelProduct(simulated_price[j], price[i], h_price,
                          simulated_volatility[j], volatility[i], h_volatility))
    /\ acc' = acc \cup {<<"simulated_price", j>>, <<"price", i>>,
                        <<"simulated_volatility", j>>, <<"volatility", i>>}
    /\ j' = j + 1
    /\ pc' = IF j + 1 # N_sim THEN "ll_kernel" ELSE "ll_accumulate"
    /\ UNCHANGED <<driver, calls, budget, simArgs, dt, N_obs, delta, sqrt_delta, i, k,
                   series, llInputs, build, llScratch, x, ll, h_frac, h_price,
                   h_volatility, ret, ll_class, sent_reads, inn_use, again, memo>>

\* LLAccumulate without the assignment of line 139
LLAccumulateKeepSum ==
    /\ pc = "ll_accumulate"
    /\ ll' = Append(ll, LogTerm(kernel_sum, N_sim))
    /\ ll_class' = fp_table[<<x, i>>]
    /\ kernel_sum' = kernel_sum
    /\ IF INFINITY_CHECK /\ FastExit(ll_class')
       THEN /\ ret' = max_double
            /\ pc' = "ll_done"
            /\ i' = i /\ j' = j
            /\ memo' = memo \cup {<<x, ret'>>}
       ELSE /\ ret' = ret
            /\ i' = i + 1 /\ j' = 0
            /\ pc' = LLOuterTest(i + 1)
            /\ memo' = memo
    /\ UNCHANGED <<driver, calls, budget, simArgs, dt, N_obs, delta, sqrt_delta, k,
                   series, llInputs, build, llScratch, x, h_frac, h_price,
                   h_volatility, acc, sent_reads, inn_use, again>>

\* lines 137-147: accumulate, clear the kernel sum, and the fast exit
LLAccumulate ==
    /\ pc = "ll_accumulate"
    /\ ll' = Append(ll, LogTerm(kernel_sum, N_sim))
    /\ ll_class' = fp_table[<<x, i>>]
    /\ kernel_sum' = <<>>
    /\ IF INFINITY_CHECK /\ FastExit(ll_class')
       THEN /\ ret' = max_double
            /\ pc' = "ll_done"
            /\ i' = i /\ j' = j
            /\ memo' = memo \cup {<<x, ret'>>}
       ELSE /\ ret' = ret
            /\ i' = i + 1 /\ j' = 0
            /\ pc' = LLOuterTest(i + 1)
            /\ memo' = memo
    /\ UNCHANGED <<driver, calls, budget, simArgs, dt, N_obs, delta, sqrt_delta, k,
                   series, llInputs, build, llScratch, x, h_frac, h_price,
                   h_volatility, acc, sent_reads, inn_use, again>>

\* line 150
LLReturn ==
    /\ pc = "ll_return"
    /\ ret' = Negated(ll)
    /\ pc' = "ll_done"
    /\ memo' = memo \cup {<<x, ret'>>}
    /\ UNCHANGED <<driver, calls, budget, simArgs, dt, N_obs, delta, sqrt_delta, i, j, k,
                   series, llInputs, build, llScratch, x, ll, kernel_sum, h_frac,
                   h_price, h_volatility, ll_class, acc, sent_reads, inn_use, again>>

LLNext == LLCall \/ LLFill \/ LLReset \/ LLStep \/ LLBandwidth \/ LLKernel
            \/ LLAccumulate \/ LLReturn

Next == SimNext \/ LLNext

\* a driver that calls simulate_joint_process once, or an optimiser that
\* evaluates simulated_ll_joint up to MaxCalls times on the same wrapper
Spec == Init /\ [][Next]_vars

\* ------------------------------------------------------------------------
\* Properties
\* ------------------------------------------------------------------------
InSimulate == driver = "simulate" /\ calls > 0
InEvaluate == driver = "estimate" /\ calls > 0

\* C1: one sub-step of simulate_joint_process gives the price and the
\* volatility that one sub-step of simulated_ll_joint gives from the same
\* state, sentiment value and innovation pair.
C1_SameSubStep ==
    [][pc = "sim_step" =>
        /\ price'[i] = LLPriceNext(parameters, price[i], volatility[i], W_p',
                                   delta, sqrt_delta)
        /\ volatility'[i] = LLVolatilityNext(parameters, price[i], volatility[i],
                                             sentiment[i], W_v', delta, sqrt_delta)]_vars

\* C2: with N_obs = 2, M_obs = 1, rho_pv = 0 and both draws 0, the simulator
\* returns price[1] = p0 + gamma_p*(mu_p - p0)*dt and
\* volatility[1] = volatility[0] + gamma_v*(mu_v + beta_v*|sentiment[0]| - v0)*dt.
C2_ZeroNoiseStep ==
    (pc = "sim_done" /\ N_obs = 2 /\ M_obs = 1 /\ parameters.rho_pv = 0
        /\ W_v = 0 /\ W_p = 0)
    => /\ price[1] = p0 + parameters.gamma_p * (parameters.mu_p - p0) * dt
       /\ volatility[1] = volatility[0]
            + parameters.gamma_v
                * (parameters.mu_v + parameters.beta_v * abs(sentiment[0]) - v0) * dt

\* C3: a call with a non-positive grid size ends in an explicit error and
\* leaves the output buffers alone.
C3_MalformedRejected ==
    (InSimulate /\ (N_obs <= 0 \/ M_obs <= 0) /\ pc \in {"sim_done", "ub", "error"})
    => (pc = "error" /\ acc = {})

\* C4: with the fast exit enabled the evaluator returns max_double exactly
\* when the running log-likelihood is non-finite after a step; otherwise,
\* and always with the fast exit disabled, it runs all N_obs - 1 steps and
\* returns -ll.
C4_FastExit ==
    pc = "ll_done" =>
        IF INFINITY_CHECK /\ ll_class \in NonFinite
        THEN ret = max_double
        ELSE ret = Negated(ll) /\ Len(ll) = N_obs - 1

\* C5: two evaluations with the same parameter vector on the same wrapper
\* return the same value, whatever the scratch buffers held when they began.
C5_Deterministic ==
    \A a \in memo, b \in memo : a[1] = b[1] => a[2] = b[2]

\* an evaluation returned -ll for a vector evaluated before, with an
\* evaluation of another vector in between
C5_Witness ==
    pc = "ll_done" /\ again /\ ret.kind = "value" /\ N_obs >= 3 /\ N_sim >= 2

\* C6: no step of simulated_ll_joint changes the observed series, the
\* sentiment, the raw innovation buffers or the grid sizes.
C6_InputsUnchanged ==
    [][driver = "estimate" =>
        UNCHANGED <<price, volatility, sentiment, random_buffer_price,
                    random_buffer_volatility, N_obs, N_sim, M_sim, dt>>]_vars

\* a fast-exit return after a normal return, the scratch buffers rewritten
C6_Witness ==
    /\ pc = "ll_done" /\ ret = max_double
    /\ \E m \in memo : m[2].kind = "value"
    /\ \E n \in 0..(InnLen - 1) : wiener_volatility[n] = random_buffer_volatility[n]

\* C7: h_frac is (4/3)^(1/5) * N_sim^(-3/10), and the bandwidths are h_frac
\* times the standard deviation of the ensemble.
C7_BandwidthFactor ==
    InEvaluate =>
        /\ h_frac.base = <<4, 3>>
        /\ h_frac.exp = <<1, 5>>
        /\ h_frac.n = N_sim
        /\ h_frac.nexp = <<-3, 10>>
        /\ pc \in {"ll_kernel", "ll_accumulate"} =>
            /\ h_price = [h_frac |-> h_frac, sd |-> st_dev(simulated_price, N_sim)]
            /\ h_volatility = [h_frac |-> h_frac, sd |-> st_dev(simulated_volatility, N_sim)]

\* the price after m sub-steps of drift alone
RECURSIVE DriftOnly(_, _, _, _)
DriftOnly(par, p, m, dl) ==
    IF m = 0 THEN p
    ELSE LET q == DriftOnly(par, p, m - 1, dl)
         IN  q + par.gamma_p * (par.mu_p - q) * dl

Degenerate(par) ==
    par.mu_v = 0 /\ par.beta_v = 0 /\ par.gamma_v = 0 /\ par.sigma_v = 0

\* C8: with mu_v = beta_v = gamma_v = sigma_v = 0 and v0 = 0 every
\* volatility entry the simulator has written is 0 and every price entry is
\* the previous one moved by the drift of M_obs sub-steps.
C8_DegenerateVolatility ==
    (InSimulate /\ Degenerate(parameters) /\ v0 = 0 /\ N_obs >= 1 /\ M_obs >= 1)
    => /\ \A n \in 0..(BufLen - 1) :
            (n < i \/ (n = i /\ pc = "sim_step")) => volatility[n] = 0
       /\ \A n \in 1..(BufLen - 1) :
            n < i => price[n] = DriftOnly(parameters, price[n - 1], M_obs, delta)

\* a degenerate path of full length with a non-zero draw in its last sub-step
C8_Witness ==
    /\ InSimulate /\ pc = "sim_done" /\ Degenerate(parameters) /\ v0 = 0
    /\ N_obs = MaxNobs /\ M_obs >= 2 /\ W_v # 0 /\ parameters.rho_pv # 0
    /\ price[N_obs - 1] # price[0]

\* member m of the ensemble of step ii after kk sub-steps, from the observed
\* state, the parameters, the sentiment and the raw innovations alone
RECURSIVE Propagated(_, _, _)
Propagated(ii, m, kk) ==
    IF kk = 0 THEN <<price[ii - 1], volatility[ii - 1]>>
    ELSE LET prev == Propagated(ii, m, kk - 1)
             n == m * M_sim + (kk - 1)
             wv == random_buffer_volatility[n]
             wp == Correlate(Unwrap(x).rho_pv, random_buffer_price[n], wv)
         IN  <<LLPriceNext(Unwrap(x), prev[1], prev[2], wp, delta, sqrt_delta),
               LLVolatilityNext(Unwrap(x), prev[1], prev[2],
                                sentiment[(ii - 1) * M_sim + (kk - 1)], wv,
                                delta, sqrt_delta)>>

EnsembleOfStep ==
    \A m \in 0..(N_sim - 1) :
        <<simulated_price[m], simulated_volatility[m]>> = Propagated(i, m, M_sim)

KernelTermsOfStep(n) ==
    /\ Len(kernel_sum) = n
    /\ \A m \in 1..n :
        kernel_sum[m] =
            KernelProduct(Propagated(i, m - 1, M_sim)[1], price[i], h_price,
                          Propagated(i, m - 1, M_sim)[2], volatility[i], h_volatility)

\* C9: at every observation step each member starts from the observed state
\* of the step before; the ensemble the density uses is the propagation of
\* that state; the kernel sum is empty until the whole ensemble has been
\* propagated and then holds the N_sim terms of the step, and no other.
C9_EnsembleReset ==
    InEvaluate =>
        /\ (pc = "ll_step" /\ k = 0) =>
            /\ simulated_price[j] = price[i - 1]
            /\ simulated_volatility[j] = volatility[i - 1]
        /\ pc \in {"ll_reset", "ll_step", "ll_bandwidth"} => kernel_sum = <<>>
        /\ pc \in {"ll_reset", "ll_step"} =>
            \A m \in 0..(j - 1) :
                <<simulated_price[m], simulated_volatility[m]>> = Propagated(i, m, M_sim)
        /\ pc \in {"ll_bandwidth", "ll_kernel", "ll_accumulate"} => EnsembleOfStep
        /\ pc = "ll_kernel" => KernelTermsOfStep(j)
        /\ pc = "ll_accumulate" => KernelTermsOfStep(N_sim)

\* the kernel sum of a later step, complete
C9_Witness ==
    /\ pc = "ll_accumulate" /\ i >= 2 /\ N_sim >= 2 /\ M_sim >= 2
    /\ Len(ll) = i - 1
    /\ simulated_price[0] # simulated_price[1]

\* declared length of each buffer of the evaluator
DeclaredLength(buffer) ==
    IF buffer \in {"price", "volatility"} THEN N_obs
    ELSE IF buffer = "sentiment" THEN (N_obs - 1) * M_sim
    ELSE IF buffer \in {"simulated_price", "simulated_volatility"} THEN N_sim
    ELSE N_sim * M_sim

AccessesInBounds ==
    /\ (InSimulate /\ N_obs >= 1 /\ M_obs >= 1) =>
        \A a \in acc :
            a[1] \in {"price", "volatility", "sentiment"} /\ 0 <= a[2] /\ a[2] < N_obs
    /\ InEvaluate =>
        /\ \A a \in acc : 0 <= a[2] /\ a[2] < DeclaredLength(a[1])
        /\ \A s \in inn_use, t \in inn_use :
            (s[3] = t[3]) <=> (s[1] = t[1] /\ s[2] = t[2])

\* C10 as amended: every access is inside the declared lengths, member j and
\* sub-step k read the same innovation entry at every step, and the
\* evaluator reads each sentiment entry below (N_obs-1)*M_sim once per
\* ensemble member when it runs all steps, each entry below i*M_sim once per
\* member and none above when it takes the fast exit at step i.
C10_InBounds ==
    /\ AccessesInBounds
    /\ (InEvaluate /\ pc = "ll_done") =>
        \A n \in 0..(SentLen - 1) :
            sent_reads[n] =
                IF n < (IF ret = max_double THEN i ELSE N_obs - 1) * M_sim
                THEN N_sim ELSE 0

\* a complete evaluation on the largest grid
C10_Witness ==
    /\ pc = "ll_done" /\ ret.kind = "value"
    /\ N_obs = MaxNobs /\ N_sim >= 2 /\ M_sim >= 2
    /\ sent_reads[(N_obs - 1) * M_sim - 1] = N_sim

\* C10 as stated: every access is inside the declared lengths and a call
\* reads each sentiment entry below (N_obs-1)*M_sim exactly once.
C10_Original ==
    /\ AccessesInBounds
    /\ (InEvaluate /\ pc = "ll_done") =>
        \A n \in 0..((N_obs - 1) * M_sim - 1) : sent_reads[n] = 1

====
